---- MODULE Spec2Model ----
(***************************************************************************)
(* gandi-ddns: one run of main() in src/main.py.                           *)
(*                                                                         *)
(* Text is modelled structurally.  A dotted string ("5.6.7.8",             *)
(* "example.com", "some-host.lan.") is the sequence of its labels, so that *)
(* f"{a}.{b}" is a \o b and a trailing dot is a last empty label.          *)
(* Optional[T] is a sequence of length 0 (None) or 1 (the value).  A JSON  *)
(* object is a record whose fields are optional (absent keys are None).    *)
(***************************************************************************)
EXTENDS Integers, Sequences, FiniteSets, TLC

VARIABLES
    domains,        \* keys of GLOBAL_CONF.records, in iteration order
    ini,            \* the records as get_config parsed them from the file
    records,        \* GLOBAL_CONF.records values (mutated in place by main)
    notify_script,  \* GLOBAL_CONF.notify_script is set
    pc,             \* position of main()
    error,          \* the exception that ended the run ("" while none)
    wan_addr,       \* the IPv4 address `ip addr show` reports for wan_device
    public_addr,    \* the address HTTP_IP_SOURCE answers with
    local_ip,       \* main's local_ip (<<>> before get_local_ip returns)
    di,             \* index of the domain the outer for loop is at
    ri,             \* index of the record the inner for loop is at
    zone_href,      \* main's zone_href
    record_data,    \* main's record_data
    rec_val,        \* main's rec_val
    response,       \* the HTTP response of the latest provider request
    requests,       \* every request handed to urlopen by gandi_req, in order
    notified,       \* every message passed to send_notification, in order
    script_runs,    \* every message the notify script was run with, in order
    zone,           \* the RRsets the provider holds (followed under SpecStored only)
    run             \* which run of the program this is (1, or 2 after a rerun)

vars == <<domains, ini, records, notify_script, pc, error, wan_addr,
          public_addr, local_ip, di, ri, zone_href, record_data, rec_val, response, requests,
          notified, script_runs, zone, run>>

(***************************************************************************)
(* Bounds                                                                  *)
(***************************************************************************)
\* Most records one configuration declares, over all its domains.
MaxRecords == 2

(***************************************************************************)
(* Values                                                                  *)
(***************************************************************************)
None == <<>>
Some(x) == <<x>>

Reverse(s) == [i \in 1..Len(s) |-> s[Len(s) + 1 - i]]

RRSET_TTL == 1200

\* A JSON object of the provider, restricted to the keys main reads.
EmptyDict ==
    [rrset_name |-> None, rrset_values |-> None, code |-> None,
     message |-> None, zone_records_href |-> None]

\* Python truthiness of an Optional[dict]: None and {} are falsy.
Truthy(v) == v # None /\ v[1] # EmptyDict

\* Python truthiness of an Optional[list]: None and [] are falsy.
TruthyList(v) == v # None /\ v[1] # <<>>

(***************************************************************************)
(* The environment: addresses, configuration files, provider responses     *)
(***************************************************************************)
IPs == { <<"5", "6", "7", "8">>, <<"1", "2", "2", "1">> }

DomainPool == << <<"example", "com">>, <<"foobar", "org">> >>

Record(type, name, val) == [type |-> type, name |-> name, val |-> val]

MxValues == << <<"10 mx1", "example", "net", "">>, <<"20 mx2", "example", "net", "">> >>

\* The records a section may declare, in the order the file lists them.
RecordPool ==
    << Record("A", <<"@">>, None),
       Record("MX", <<"@">>, Some(MxValues)),
       Record("PTR", <<"rev">>, None),
       Record("PTR", <<"host">>, Some(<< <<"old", "lan", "">> >>)) >>

\* The sub-sequence of RecordPool holding the records whose index is in S.
RECURSIVE PoolPick(_, _)
PoolPick(S, i) ==
    IF i > Len(RecordPool) THEN <<>>
    ELSE (IF i \in S THEN <<RecordPool[i]>> ELSE <<>>) \o PoolPick(S, i + 1)

Sections == { PoolPick(S, 1) : S \in SUBSET (1..Len(RecordPool)) }

RECURSIVE TotalRecords(_)
TotalRecords(recs) ==
    IF recs = <<>> THEN 0 ELSE Len(Head(recs)) + TotalRecords(Tail(recs))

\* get_config: every non-default section becomes a domain with its records.
Configs ==
    { recs \in UNION { [1..n -> Sections] : n \in 0..Len(DomainPool) } :
        TotalRecords(recs) <= MaxRecords }

HttpResponse(status, body) == [status |-> status, body |-> body]

\* The zone-records endpoint the provider hands out for a domain.
ProviderHref(domain) == <<"zones">> \o domain \o <<"records">>

ErrorDict(code) == [EmptyDict EXCEPT !.code = Some(code), !.message = Some("error")]

DomainResponses(domain) ==
    { HttpResponse(200, Some([EmptyDict EXCEPT !.zone_records_href = Some(ProviderHref(domain))])),
      HttpResponse(200, Some([EmptyDict EXCEPT !.message = Some("pending")])),
      HttpResponse(200, None),
      HttpResponse(404, Some(ErrorDict(404))),
      HttpResponse(502, None) }

\* Value lists the live zone may hold for a record whose desired list is v.
LiveValues(v) == { v, Reverse(v), <<>>, << <<"9", "9", "9", "9">> >> }

RRset(name, values) ==
    [EmptyDict EXCEPT !.rrset_name = Some(name), !.rrset_values = Some(values)]

RecordResponses(record) ==
    { HttpResponse(200, Some(RRset(record.name, v))) : v \in LiveValues(record.val[1]) }
    \cup
    { HttpResponse(200, Some([EmptyDict EXCEPT !.rrset_name = Some(record.name)])),
      HttpResponse(200, Some(RRset(<<"other">>, record.val[1]))),
      HttpResponse(200, Some(EmptyDict)),
      HttpResponse(200, None),
      HttpResponse(404, Some(ErrorDict(404))),
      HttpResponse(404, None),
      HttpResponse(500, Some(ErrorDict(500))),
      HttpResponse(502, None) }

PutResponses ==
    { HttpResponse(201, Some([EmptyDict EXCEPT !.message = Some("DNS Record Created")])),
      HttpResponse(200, None),
      HttpResponse(400, Some(ErrorDict(400))),
      HttpResponse(502, None) }

(***************************************************************************)
(* gandi_req                                                               *)
(***************************************************************************)
Request(method, url, data) == [method |-> method, url |-> url, data |-> data]

DomainUrl(domain) == << <<"domains">>, domain >>

\* A record URL that stops at the zone-records endpoint.
RecordUrlZone(href, record) == << href >>

RecordUrl(href, record) == << href, record.name, <<record.type>> >>

\* A PUT body that carries the live values instead of the desired ones.
PutDataLive(record, live) ==
    Some([rrset_name |-> record.name, rrset_type |-> record.type,
          rrset_ttl |-> 1200, rrset_values |-> live])

\* main, lines 257-262: the body of the PUT (live is main's rec_val).
PutData(record, live) ==
    Some([rrset_name |-> record.name, rrset_type |-> record.type,
          rrset_ttl |-> RRSET_TTL, rrset_values |-> record.val])

Returned(v) == [raised |-> "", value |-> v]
Raised(e) == [raised |-> e, value |-> None]

\* gandi_req without its except clause: an HTTPError leaves the function.
gandi_req_uncaught(resp) ==
    IF resp.status \in 200..299
    THEN IF resp.body = None THEN Raised("JSONDecodeError") ELSE Returned(resp.body)
    ELSE Raised("HTTPError")

\* What gandi_req makes of the HTTP response: urlopen raises HTTPError for a
\* status outside 2xx, whose body is returned if it decodes and None if not;
\* a 2xx body is decoded outside any try.
gandi_req(resp) ==
    IF resp.status \in 200..299
    THEN IF resp.body = None THEN Raised("JSONDecodeError") ELSE Returned(resp.body)
    ELSE IF resp.body = None THEN Returned(None) ELSE Returned(resp.body)

(***************************************************************************)
(* send_notification                                                       *)
(***************************************************************************)
MismatchMsg(l, n) == [kind |-> "IP mismatch", local_ip |-> l, net_ip |-> n]

UpdateMsg(domain, record, old, new) ==
    [kind |-> "updating", domain |-> domain, record |-> record, old |-> old, new |-> new]

\* The notify script is run only when one is configured.
ScriptRun(script, runs, msg) == IF script THEN Append(runs, msg) ELSE runs

(***************************************************************************)
(* Resolution of a record (main, lines 228-233)                            *)
(***************************************************************************)
\* A fill that substitutes the loopback address for the detected one.
FillValLoopback(record, ip) ==
    IF ~TruthyList(record.val)
    THEN [record EXCEPT !.val = Some(<< <<"127", "0", "0", "1">> >>)]
    ELSE record

\* A fill that does not look at the declared values.
FillValAlways(record, ip) == [record EXCEPT !.val = Some(<<ip>>)]

\* A resolution without the fill.
FillValNever(record, ip) == record

FillVal(record, ip) ==
    IF ~TruthyList(record.val) THEN [record EXCEPT !.val = Some(<<ip>>)] ELSE record

PtrName(ip) == ip \o <<"in-addr", "arpa", "">>

FillPtr(record, ip, domain) ==
    IF record.type = "PTR"
    THEN [record EXCEPT !.name = PtrName(ip), !.val = Some(<< domain \o <<"">> >>)]
    ELSE record

Resolve(record, ip, domain) == FillPtr(FillVal(record, ip), ip, domain)

(***************************************************************************)
(* Classification of the live lookup (main, lines 241-251)                 *)
(***************************************************************************)
\* A classification without the not-found branch.
ClassifyWithout404(data, name) ==
    IF data.rrset_name = Some(name) THEN "exists" ELSE "unexpected"

Classify(data, name) ==
    IF data.rrset_name = Some(name) THEN "exists"
    ELSE IF data.code = Some(404) THEN "absent"
    ELSE "unexpected"

\* A comparison that ignores the order of the values.
NeedsPutAsSets(live, desired) ==
    \/ live = None
    \/ { live[1][i] : i \in 1..Len(live[1]) } # { desired[1][i] : i \in 1..Len(desired[1]) }

\* A comparison that always asks for a write.
NeedsPutAlways(live, desired) == TRUE

\* main, line 253: Python list (and None) inequality.
NeedsPut(live, desired) == live # desired

(***************************************************************************)
(* The run                                                                 *)
(***************************************************************************)
Init ==
    /\ \E recs \in Configs :
          /\ ini = recs
          /\ records = recs
          /\ domains = SubSeq(DomainPool, 1, Len(recs))
    /\ notify_script \in BOOLEAN
    /\ pc = "get_local_ip"
    /\ error = ""
    /\ wan_addr \in {None} \cup { Some(ip) : ip \in IPs }
    /\ public_addr \in {None} \cup { Some(ip) : ip \in IPs }
    /\ local_ip = <<>>
    /\ di = 0
    /\ ri = 0
    /\ zone_href = <<>>
    /\ record_data = None
    /\ rec_val = None
    /\ response = None
    /\ requests = <<>>
    /\ notified = <<>>
    /\ script_runs = <<>>
    /\ zone = {}
    /\ run = 1

Abort(e) == pc' = "aborted" /\ error' = e

\* A get_local_ip that returns the public address.
GetLocalIpReturnNet(found, net) == net

\* get_local_ip, line 180: the address the function returns.
GetLocalIpReturn(found, net) == found

\* A get_local_ip that goes on with the interface's address when one of the
\* two lookups fails.
get_local_ip_lenient ==
    /\ pc = "get_local_ip"
    /\ local_ip' = IF wan_addr = None THEN <<"0", "0", "0", "0">> ELSE wan_addr[1]
    /\ pc' = "for_domain"
    /\ UNCHANGED <<domains, ini, records, notify_script, wan_addr, public_addr,
                   di, ri, zone_href, record_data, rec_val, response, requests,
                   zone, run, error, notified, script_runs>>

\* get_local_ip: the interface address (the regular expression finds none:
\* AttributeError), then the public one (unreachable: URLError), then the
\* mismatch notification.
get_local_ip ==
    /\ pc = "get_local_ip"
    /\ IF wan_addr = None
       THEN /\ Abort("AttributeError")
            /\ UNCHANGED <<local_ip, notified, script_runs>>
       ELSE IF public_addr = None
       THEN /\ Abort("URLError")
            /\ UNCHANGED <<local_ip, notified, script_runs>>
       ELSE /\ IF wan_addr[1] # public_addr[1]
               THEN /\ notified' = Append(notified, MismatchMsg(wan_addr[1], public_addr[1]))
                    /\ script_runs' = ScriptRun(notify_script, script_runs,
                                                MismatchMsg(wan_addr[1], public_addr[1]))
               ELSE UNCHANGED <<notified, script_runs>>
            /\ local_ip' = GetLocalIpReturn(wan_addr[1], public_addr[1])
            /\ pc' = "for_domain"
            /\ UNCHANGED error
    /\ UNCHANGED <<domains, ini, records, notify_script, wan_addr, public_addr,
                   di, ri, zone_href, record_data, rec_val, response, requests,
                   zone, run>>

\* for domain, records in GLOBAL_CONF.records.items(): lines 222-225, the
\* provider answering the metadata GET with one of Responses.
ForDomain(Responses) ==
    /\ pc = "for_domain"
    /\ IF di < Len(domains)
       THEN /\ di' = di + 1
            /\ ri' = 0
            /\ requests' = Append(requests, Request("GET", DomainUrl(domains[di + 1]), None))
            /\ \E resp \in Responses :
                  /\ response' = Some(resp)
                  /\ LET got == gandi_req(resp) IN
                     IF got.raised # ""
                     THEN Abort(got.raised) /\ UNCHANGED zone_href
                     ELSE IF ~Truthy(got.value)
                     THEN Abort("AssertionError") /\ UNCHANGED zone_href
                     ELSE IF got.value[1].zone_records_href = None
                     THEN Abort("KeyError") /\ UNCHANGED zone_href
                     ELSE /\ zone_href' = got.value[1].zone_records_href[1]
                          /\ pc' = "for_record"
                          /\ UNCHANGED error
       ELSE /\ pc' = "done"
            /\ UNCHANGED <<di, ri, requests, response, zone_href, error>>
    /\ UNCHANGED <<domains, ini, records, notify_script, wan_addr, public_addr, local_ip,
                   record_data, rec_val, notified, script_runs>>

\* A domain loop that takes the next domain when the metadata is unusable.
for_domain_skipping ==
    /\ pc = "for_domain"
    /\ IF di < Len(domains)
       THEN /\ di' = di + 1
            /\ ri' = 0
            /\ requests' = Append(requests, Request("GET", DomainUrl(domains[di + 1]), None))
            /\ \E resp \in DomainResponses(domains[di + 1]) :
                  /\ response' = Some(resp)
                  /\ IF resp.body # None /\ resp.body[1].zone_records_href # None
                     THEN /\ zone_href' = resp.body[1].zone_records_href[1]
                          /\ pc' = "for_record"
                     ELSE /\ pc' = "for_domain"
                          /\ UNCHANGED zone_href
       ELSE /\ pc' = "done"
            /\ UNCHANGED <<di, ri, requests, response, zone_href>>
    /\ UNCHANGED <<domains, ini, records, notify_script, wan_addr, public_addr, local_ip,
                   record_data, rec_val, notified, script_runs, error, zone, run>>

for_domain ==
    /\ pc = "for_domain"
    /\ ForDomain(DomainResponses(domains[di + 1]))
    /\ UNCHANGED <<zone, run>>

\* for record in records: lines 227-237 (resolution, rec_val = None).
for_record ==
    /\ pc = "for_record"
    /\ IF ri < Len(records[di])
       THEN /\ ri' = ri + 1
            /\ records' = [records EXCEPT ![di][ri + 1] =
                              Resolve(records[di][ri + 1], local_ip, domains[di])]
            /\ rec_val' = None
            /\ pc' = "get_record"
       ELSE /\ pc' = "for_domain"
            /\ UNCHANGED <<ri, records, rec_val>>
    /\ UNCHANGED <<domains, ini, notify_script, error, wan_addr, public_addr, local_ip, di,
                   zone_href, record_data, response, requests, notified,
                   script_runs, zone, run>>

\* lines 238-251: the live lookup, answered with one of Responses, and its
\* classification.
GetRecord(Responses) ==
    /\ pc = "get_record"
    /\ LET record == records[di][ri] IN
       /\ requests' = Append(requests, Request("GET", RecordUrl(zone_href, record), None))
       /\ \E resp \in Responses :
             /\ response' = Some(resp)
             /\ LET got == gandi_req(resp) IN
                IF got.raised # ""
                THEN Abort(got.raised) /\ UNCHANGED <<record_data, rec_val>>
                ELSE /\ record_data' = got.value
                     /\ IF ~Truthy(got.value)
                        THEN Abort("AssertionError") /\ UNCHANGED rec_val
                        ELSE LET class == Classify(got.value[1], record.name) IN
                             IF class = "exists"
                             THEN IF got.value[1].rrset_values = None
                                  THEN Abort("KeyError") /\ UNCHANGED rec_val
                                  ELSE /\ rec_val' = got.value[1].rrset_values
                                       /\ pc' = "compare"
                                       /\ UNCHANGED error
                             ELSE IF class = "absent"
                             THEN /\ pc' = "compare"
                                  /\ UNCHANGED <<rec_val, error>>
                             ELSE /\ pc' = "for_record"
                                  /\ UNCHANGED <<rec_val, error>>
    /\ UNCHANGED <<domains, ini, records, notify_script, wan_addr, public_addr, local_ip, di,
                   ri, zone_href, notified, script_runs>>

get_record ==
    /\ pc = "get_record"
    /\ GetRecord(RecordResponses(records[di][ri]))
    /\ UNCHANGED <<zone, run>>

\* lines 253-268: the comparison, the PUT, answered with one of Responses,
\* and the update notification.
Compare(Responses) ==
    /\ pc = "compare"
    /\ LET record == records[di][ri]
           msg == UpdateMsg(domains[di], record, rec_val, record.val)
       IN
       IF NeedsPut(rec_val, record.val)
       THEN /\ requests' = Append(requests,
                              Request("PUT", RecordUrl(zone_href, record),
                                      PutData(record, rec_val)))
            /\ \E resp \in Responses :
                  /\ response' = Some(resp)
                  /\ IF gandi_req(resp).raised # ""
                     THEN /\ Abort(gandi_req(resp).raised)
                          /\ UNCHANGED <<notified, script_runs>>
                     ELSE /\ notified' = Append(notified, msg)
                          /\ script_runs' = ScriptRun(notify_script, script_runs, msg)
                          /\ pc' = "for_record"
                          /\ UNCHANGED error
       ELSE /\ pc' = "for_record"
            /\ UNCHANGED <<requests, response, notified, script_runs, error>>
    /\ UNCHANGED <<domains, ini, records, notify_script, wan_addr, public_addr, local_ip, di,
                   ri, zone_href, record_data, rec_val>>

\* A comparison step that repeats a PUT the provider answered with an error.
compare_retrying ==
    /\ pc = "compare"
    /\ \/ /\ ~NeedsPut(rec_val, records[di][ri].val)
          /\ Compare(PutResponses)
       \/ /\ NeedsPut(rec_val, records[di][ri].val)
          /\ requests' = Append(requests,
                            Request("PUT", RecordUrl(zone_href, records[di][ri]),
                                    PutData(records[di][ri], rec_val)))
          /\ \E resp \in PutResponses :
                /\ response' = Some(resp)
                /\ pc' = IF resp.status \in 200..299 THEN "for_record" ELSE "compare"
          /\ UNCHANGED <<domains, ini, records, notify_script, wan_addr, public_addr,
                         local_ip, di, ri, zone_href, record_data, rec_val, error,
                         notified, script_runs>>
    /\ UNCHANGED <<zone, run>>

compare ==
    /\ pc = "compare"
    /\ Compare(PutResponses)
    /\ UNCHANGED <<zone, run>>

Next == get_local_ip \/ for_domain \/ for_record \/ get_record \/ compare

Spec == Init /\ [][Next]_vars

(***************************************************************************)
(* Two runs against a provider that stores what is written                 *)
(***************************************************************************)
\* get_config keeps two spellings of one key ("MX, @" and "MX,@") as two
\* records of the section: the pool with a second MX record of the same name.
SpellingPool == RecordPool \o << Record("MX", <<"@">>, Some(Reverse(MxValues))) >>

RECURSIVE SpellingPick(_, _)
SpellingPick(S, i) ==
    IF i > Len(SpellingPool) THEN <<>>
    ELSE (IF i \in S THEN <<SpellingPool[i]>> ELSE <<>>) \o SpellingPick(S, i + 1)

SpellingSections == { SpellingPick(S, 1) : S \in SUBSET (1..Len(SpellingPool)) }

SpellingConfigs ==
    { recs \in UNION { [1..n -> SpellingSections] : n \in 0..Len(DomainPool) } :
        TotalRecords(recs) <= MaxRecords }

ZoneEntry(url, values) == [url |-> url, values |-> values]

\* What the zone of the first domain may hold before the first run.
InitialZones ==
    SUBSET { ZoneEntry(<< ProviderHref(DomainPool[1]), <<"@">>, <<"A">> >>,
                       << <<"5", "6", "7", "8">> >>),
             ZoneEntry(<< ProviderHref(DomainPool[1]), <<"@">>, <<"MX">> >>,
                       Reverse(MxValues)) }

Held(url) == { e \in zone : e.url = url }

StoredDomainResponses(domain) ==
    { HttpResponse(200, Some([EmptyDict EXCEPT !.zone_records_href = Some(ProviderHref(domain))])) }

\* The stored RRset under the record's name, or the not-found signal.
StoredRecordResponses(href, record) ==
    IF Held(RecordUrl(href, record)) # {}
    THEN { HttpResponse(200, Some(RRset(record.name, e.values))) :
             e \in Held(RecordUrl(href, record)) }
    ELSE { HttpResponse(404, Some(ErrorDict(404))) }

StoredPutResponses ==
    { HttpResponse(201, Some([EmptyDict EXCEPT !.message = Some("DNS Record Created")])) }

\* PUT is an upsert of the RRset at the URL.
StoredPut(url, values) == { e \in zone : e.url # url } \cup { ZoneEntry(url, values) }

InitStored ==
    /\ \E recs \in SpellingConfigs :
          /\ ini = recs
          /\ records = recs
          /\ domains = SubSeq(DomainPool, 1, Len(recs))
    /\ notify_script \in BOOLEAN
    /\ pc = "get_local_ip"
    /\ error = ""
    /\ wan_addr \in { Some(ip) : ip \in IPs }
    /\ public_addr \in { Some(ip) : ip \in IPs }
    /\ local_ip = <<>>
    /\ di = 0
    /\ ri = 0
    /\ zone_href = <<>>
    /\ record_data = None
    /\ rec_val = None
    /\ response = None
    /\ requests = <<>>
    /\ notified = <<>>
    /\ script_runs = <<>>
    /\ zone \in InitialZones
    /\ run = 1

for_domain_stored ==
    /\ pc = "for_domain"
    /\ ForDomain(StoredDomainResponses(domains[di + 1]))
    /\ UNCHANGED <<zone, run>>

get_record_stored ==
    /\ pc = "get_record"
    /\ GetRecord(StoredRecordResponses(zone_href, records[di][ri]))
    /\ UNCHANGED <<zone, run>>

compare_stored ==
    /\ pc = "compare"
    /\ Compare(StoredPutResponses)
    /\ zone' = IF NeedsPut(rec_val, records[di][ri].val)
               THEN StoredPut(RecordUrl(zone_href, records[di][ri]), records[di][ri].val[1])
               ELSE zone
    /\ UNCHANGED run

\* The program is run again: a new process reads the same file and starts
\* main from its beginning, with the same addresses and the zone as left.
rerun ==
    /\ pc = "done"
    /\ run = 1
    /\ run' = 2
    /\ records' = ini
    /\ pc' = "get_local_ip"
    /\ local_ip' = <<>>
    /\ di' = 0
    /\ ri' = 0
    /\ zone_href' = <<>>
    /\ record_data' = None
    /\ rec_val' = None
    /\ response' = None
    /\ requests' = <<>>
    /\ notified' = <<>>
    /\ script_runs' = <<>>
    /\ UNCHANGED <<domains, ini, notify_script, error, wan_addr, public_addr, zone>>

NextStored ==
    \/ get_local_ip
    \/ for_domain_stored
    \/ for_record
    \/ get_record_stored
    \/ compare_stored
    \/ rerun

SpecStored == InitStored /\ [][NextStored]_vars

(***************************************************************************)
(* Vocabulary of the properties                                            *)
(***************************************************************************)
\* The record the inner loop is at (after its resolution).
cur == records[di][ri]

LastRequest == requests[Len(requests)]

GetOf(record) == Request("GET", RecordUrl(zone_href, record), None)

PutOf(record) ==
    Request("PUT", RecordUrl(zone_href, record),
            Some([rrset_name |-> record.name, rrset_type |-> record.type,
                  rrset_ttl |-> RRSET_TTL, rrset_values |-> record.val]))

\* The lookup of the current record is the latest request and has been
\* answered: response is its answer.
LookupReturned ==
    /\ ri >= 1
    /\ pc \in {"compare", "for_record", "aborted"}
    /\ requests # <<>>
    /\ LastRequest = GetOf(cur)

\* The PUT of the current record is the latest request and has been answered:
\* response is its answer, record_data still the payload of its lookup.
PutReturned ==
    /\ ri >= 1
    /\ pc \in {"for_record", "aborted"}
    /\ requests # <<>>
    /\ LastRequest = PutOf(cur)

\* The current record is done with: skipped, left alone, or written.
Settled == pc = "for_record" /\ ri >= 1

\* record_data is the payload of the current record's lookup.
PayloadKnown ==
    /\ record_data # None
    /\ \/ Settled
       \/ pc = "compare"
       \/ PutReturned

Failed(resp) == resp.status \notin 200..299

\* Ordered, element-for-element equality of two lists.
SameList(a, b) == Len(a) = Len(b) /\ \A i \in 1..Len(a) : a[i] = b[i]

IsRRsetOf(data, record) == data.rrset_name = Some(record.name) /\ data.rrset_values # None

IsNotFound(data, record) == data.code = Some(404) /\ data.rrset_name # Some(record.name)

IsUnexpected(data, record) == data.code # Some(404) /\ data.rrset_name # Some(record.name)

CountIf(s, P(_)) == Cardinality({ i \in 1..Len(s) : P(s[i]) })

(***************************************************************************)
(* Properties                                                              *)
(***************************************************************************)

\* C1: once a record whose lookup returned an existing RRset (its name is the
\* resolved name) is done with, a PUT was issued for it exactly when the live
\* list and the desired list are not equal element for element, in order.
OrderedCompareDecidesPut ==
    (PayloadKnown /\ (Settled \/ PutReturned) /\ IsRRsetOf(record_data[1], cur)) =>
        (LastRequest = PutOf(cur)
            <=> ~SameList(record_data[1].rrset_values[1], cur.val[1]))

\* C1 happens: the live list is the desired list in another order, and the
\* PUT was issued.
ReorderedLiveWasPut ==
    /\ PutReturned
    /\ IsRRsetOf(record_data[1], cur)
    /\ record_data[1].rrset_values[1] = Reverse(cur.val[1])
    /\ Reverse(cur.val[1]) # cur.val[1]

\* C2: a lookup answered with the not-found signal (code 404, no matching
\* name) is classified as absent (no live values, on to the comparison, not
\* skipped and not an error), and once the record is done with a PUT
\* carrying the desired values has been issued for it.
NotFoundIsCreated ==
    /\ (LookupReturned /\ response[1].body # None
            /\ IsNotFound(response[1].body[1], cur)) =>
          (pc = "compare" /\ rec_val = None /\ error = "")
    /\ (PayloadKnown /\ (Settled \/ PutReturned) /\ IsNotFound(record_data[1], cur)) =>
          (LastRequest = PutOf(cur) /\ LastRequest.data[1].rrset_values = cur.val)

\* C2 happens: a record whose lookup said 404 has been written.
NotFoundWasPut ==
    /\ Settled
    /\ PayloadKnown
    /\ IsNotFound(record_data[1], cur)
    /\ LastRequest = PutOf(cur)

\* C3: a lookup answered with an unexpected payload (no matching name, no
\* not-found code) leaves the record skipped, without a PUT, and the run at
\* the head of the record loop, going on.
UnexpectedPayloadIsSkipped ==
    (LookupReturned /\ gandi_req(response[1]).raised = ""
        /\ gandi_req(response[1]).value # None
        /\ IsUnexpected(gandi_req(response[1]).value[1], cur)) =>
        (pc = "for_record" /\ error = "")

\* C4: a lookup that fails with an error body that does not decode (no usable
\* payload) does not abort the run.
UndecodableLookupIsConfined ==
    (LookupReturned /\ Failed(response[1]) /\ response[1].body = None) =>
        (pc # "aborted" /\ error = "")

\* C5: a PUT answered with an error (with or without a usable payload) raises
\* nothing: the run is at the head of the record loop, and a run only ever
\* ends in an error on a lookup or on a response that was no error.
FailedPutRaisesNothing ==
    /\ (PutReturned /\ Failed(response[1])) => (pc = "for_record" /\ error = "")
    /\ (pc = "aborted" /\ requests # <<>> /\ LastRequest.method = "PUT") =>
          ~Failed(response[1])

\* C5 happens: the PUT of an earlier record failed and the run has gone on to
\* a later record or domain.
WentOnAfterFailedPut ==
    /\ pc \in {"get_record", "for_domain", "done"}
    /\ requests # <<>>
    /\ LastRequest.method = "PUT"
    /\ Failed(response[1])

\* Record r of domain d has gone through its resolution step.
Resolved(d, r) == d < di \/ (d = di /\ r <= ri)

ResolvedRecords ==
    { dr \in UNION { {d} \X (1..Len(records[d])) : d \in 1..Len(records) } :
        Resolved(dr[1], dr[2]) }

WasUnset(d, r) == ini[d][r].type # "PTR" /\ ini[d][r].val = None

IsUpdateOfCur(msg) == msg = UpdateMsg(domains[di], cur, rec_val, cur.val)

IsMismatch(msg) == msg.kind = "IP mismatch"

\* The reverse-DNS name of an address: its octets in reverse order under
\* in-addr.arpa.
ReverseDnsName(ip) == Reverse(ip) \o <<"in-addr", "arpa", "">>

\* C6: an update notification for a record is emitted only when its PUT was
\* applied: after a PUT answered with an error, the latest notification is
\* not the update of that record.
UpdateNotifiedOnlyOnSuccess ==
    (PutReturned /\ notified # <<>> /\ IsUpdateOfCur(notified[Len(notified)])) =>
        ~Failed(response[1])

\* C7: every resolved PTR record is named by the reverse-DNS form of the
\* local IP and holds exactly the domain followed by a dot; the lookup and
\* the PUT of the record carry that name and those values.
PtrResolvedToReverseDns ==
    /\ \A dr \in ResolvedRecords :
          ini[dr[1]][dr[2]].type = "PTR" =>
             /\ records[dr[1]][dr[2]].name = ReverseDnsName(local_ip)
             /\ records[dr[1]][dr[2]].val = Some(<< domains[dr[1]] \o <<"">> >>)
    /\ (ri >= 1 /\ pc \in {"compare", "for_record"} /\ ini[di][ri].type = "PTR") =>
          \/ LastRequest = GetOf([ini[di][ri] EXCEPT
                                    !.name = ReverseDnsName(local_ip),
                                    !.val = Some(<< domains[di] \o <<"">> >>)])
          \/ LastRequest = PutOf([ini[di][ri] EXCEPT
                                    !.name = ReverseDnsName(local_ip),
                                    !.val = Some(<< domains[di] \o <<"">> >>)])

\* C8: every resolved non-PTR record declared without values holds exactly
\* [local_ip]; that list is what its PUT carries, and the record is left
\* unwritten only when the live list is that list.
UnsetValuesBecomeLocalIp ==
    /\ \A dr \in ResolvedRecords :
          WasUnset(dr[1], dr[2]) => records[dr[1]][dr[2]].val = Some(<<local_ip>>)
    /\ (PutReturned /\ WasUnset(di, ri)) =>
          /\ LastRequest.data[1].rrset_values = Some(<<local_ip>>)
          /\ rec_val # Some(<<local_ip>>)
    /\ (Settled /\ WasUnset(di, ri) /\ LastRequest = GetOf(cur) /\ PayloadKnown
            /\ ~IsUnexpected(record_data[1], cur)) =>
          rec_val = Some(<<local_ip>>)

\* C8 happens: a record declared without values has been written with
\* [local_ip].
UnsetRecordWasPut ==
    /\ PutReturned
    /\ WasUnset(di, ri)
    /\ LastRequest.data[1].rrset_values = Some(<<local_ip>>)
    /\ local_ip = wan_addr[1]

\* C9: once both addresses are known, the run holds exactly one mismatch
\* notification if they differ and none if they agree (and a configured
\* notify script has run for it as often), it has not ended on
\* the detection, and every address substituted into a record is the
\* interface's, whether or not the public one differs.
MismatchNotifiedOnceLocalIpWins ==
    /\ pc = "get_local_ip" => notified = <<>>
    /\ (pc # "get_local_ip" /\ wan_addr # None /\ public_addr # None) =>
          /\ CountIf(notified, IsMismatch) =
                (IF wan_addr[1] # public_addr[1] THEN 1 ELSE 0)
          /\ wan_addr[1] # public_addr[1] =>
                notified[1] = MismatchMsg(wan_addr[1], public_addr[1])
          /\ CountIf(script_runs, IsMismatch) =
                (IF notify_script /\ wan_addr[1] # public_addr[1] THEN 1 ELSE 0)
          /\ error \notin {"AttributeError", "URLError"}
          /\ pc = "aborted" => requests # <<>>
          /\ \A dr \in ResolvedRecords :
                /\ WasUnset(dr[1], dr[2]) =>
                      records[dr[1]][dr[2]].val = Some(<<wan_addr[1]>>)
                /\ ini[dr[1]][dr[2]].type = "PTR" =>
                      records[dr[1]][dr[2]].name = PtrName(wan_addr[1])

\* C9 happens: the addresses differ, the run ended normally after one
\* mismatch notification and wrote the interface's address.
MismatchRunCompleted ==
    /\ pc = "done"
    /\ wan_addr[1] # public_addr[1]
    /\ CountIf(notified, IsMismatch) = 1
    /\ \E dr \in ResolvedRecords :
          /\ WasUnset(dr[1], dr[2])
          /\ records[dr[1]][dr[2]].val = Some(<<wan_addr[1]>>)
    /\ \E i \in 1..Len(requests) :
          /\ requests[i].method = "PUT"
          /\ requests[i].data[1].rrset_values = Some(<<wan_addr[1]>>)

\* C10: a record whose live list equals the desired list reaches the
\* comparison with that list, and the comparison step issues no request,
\* emits no notification and moves to the next record.
EqualLiveNoAction ==
    /\ []((PayloadKnown /\ IsRRsetOf(record_data[1], cur)
              /\ SameList(record_data[1].rrset_values[1], cur.val[1])) =>
            (rec_val = cur.val /\ error = "" /\ LastRequest = GetOf(cur)))
    /\ [][(pc = "compare" /\ rec_val = records[di][ri].val) =>
            /\ requests' = requests
            /\ notified' = notified
            /\ script_runs' = script_runs
            /\ records' = records
            /\ pc' = "for_record"
            /\ <<di, ri>>' = <<di, ri>>]_vars

\* C10 happens: a record whose live list equals the desired one is done with
\* and its lookup is still the latest request.
EqualLiveLeftAlone ==
    /\ Settled
    /\ PayloadKnown
    /\ IsRRsetOf(record_data[1], cur)
    /\ record_data[1].rrset_values = cur.val
    /\ LastRequest = GetOf(cur)

(***************************************************************************)
(* Properties of the whole run                                             *)
(***************************************************************************)
\* The URL under the endpoint of domain d that names resolved record r of it.
TargetOf(d, r) ==
    << ProviderHref(domains[d]), records[d][r].name, <<records[d][r].type>> >>

IsPut(q) == q.method = "PUT"

IsDomainGet(q) == q.method = "GET" /\ Len(q.url) = 2

IsRecordGet(q) == q.method = "GET" /\ Len(q.url) = 3

\* C11: every request of the run is the GET of the metadata of a domain the
\* loop has reached, or the GET or the PUT of one record (never a DELETE,
\* never a whole zone), and that record is a resolved record of the
\* configuration under its own domain's endpoint.
OnlyConfiguredRecordsTouched ==
    \A i \in 1..Len(requests) :
        LET q == requests[i] IN
        \/ /\ q.method = "GET"
           /\ q.data = None
           /\ \E d \in 1..di : q.url = << <<"domains">>, domains[d] >>
        \/ /\ q.method \in {"GET", "PUT"}
           /\ \E dr \in ResolvedRecords : q.url = TargetOf(dr[1], dr[2])

\* C11 happens: a run over two domains ended normally with a PUT in each.
TwoDomainsWritten ==
    /\ pc = "done"
    /\ Len(domains) = 2
    /\ \A d \in 1..2 : \E i \in 1..Len(requests) :
          IsPut(requests[i]) /\ requests[i].url[1] = ProviderHref(domains[d])

\* C12: when the interface has no IPv4 address or the public lookup is
\* unreachable, the run is before or at its abort in get_local_ip and no
\* provider request has been made.
IpFailureBeforeAnyRequest ==
    (wan_addr = None \/ public_addr = None) =>
        /\ requests = <<>>
        /\ response = None
        /\ di = 0
        /\ pc \in {"get_local_ip", "aborted"}
        /\ pc = "aborted" => error \in {"AttributeError", "URLError"}

\* C12 happens: the public lookup was unreachable for a configuration that
\* declares records, and the run has aborted.
AbortedOnUnreachableIpSource ==
    /\ pc = "aborted"
    /\ error = "URLError"
    /\ wan_addr # None
    /\ public_addr = None
    /\ domains # <<>>
    /\ records[1] # <<>>
    /\ requests = <<>>

\* C13: every PUT of the run is addressed to the name and type of a resolved
\* record under its domain's zone-records endpoint and carries that record's
\* name, type and values, with ttl 1200.
EveryPutCarriesResolvedRecord ==
    \A i \in 1..Len(requests) :
        IsPut(requests[i]) =>
            \E dr \in ResolvedRecords :
                LET record == records[dr[1]][dr[2]] IN
                /\ requests[i].url = TargetOf(dr[1], dr[2])
                /\ requests[i].data =
                      Some([rrset_name |-> record.name, rrset_type |-> record.type,
                            rrset_ttl |-> 1200, rrset_values |-> record.val])

\* C13 happens: the MX record was written over a live list that differed.
MxRecordWasPut ==
    /\ PutReturned
    /\ cur.type = "MX"
    /\ rec_val # None
    /\ LastRequest.data[1].rrset_ttl = 1200
    /\ LastRequest.data[1].rrset_values = Some(MxValues)

RequestsTo(url, method) ==
    Cardinality({ i \in 1..Len(requests) :
                    requests[i].url = url /\ requests[i].method = method })

ResolvedTo(url) == { dr \in ResolvedRecords : TargetOf(dr[1], dr[2]) = url }

\* C14: each domain the loop has reached has exactly one metadata GET; the
\* record GETs are as many as the records whose lookup has been issued, and
\* no URL has more GETs or PUTs than records resolved to it; every PUT
\* directly follows the GET of the same URL.
NoRequestRetried ==
    /\ \A d \in 1..di : RequestsTo(<< <<"domains">>, domains[d] >>, "GET") = 1
    /\ CountIf(requests, IsDomainGet) = di
    /\ CountIf(requests, IsRecordGet) =
          Cardinality(ResolvedRecords) - (IF pc = "get_record" THEN 1 ELSE 0)
    /\ \A dr \in ResolvedRecords :
          LET url == TargetOf(dr[1], dr[2]) IN
          /\ RequestsTo(url, "GET") <= Cardinality(ResolvedTo(url))
          /\ RequestsTo(url, "PUT") <= RequestsTo(url, "GET")
    /\ \A i \in 1..Len(requests) :
          IsPut(requests[i]) =>
             /\ i > 1
             /\ IsRecordGet(requests[i - 1])
             /\ requests[i - 1].url = requests[i].url

\* C14 happens: the run ended normally after two lookups, the last PUT having
\* been answered with an error.
FailedPutNotRepeated ==
    /\ pc = "done"
    /\ CountIf(requests, IsRecordGet) = 2
    /\ IsPut(LastRequest)
    /\ Failed(response[1])

\* C15: every resolved record holds a list of at least one value, and so does
\* the body of every PUT.
ValuesNonEmptyAfterResolution ==
    /\ \A dr \in ResolvedRecords :
          /\ records[dr[1]][dr[2]].val # None
          /\ Len(records[dr[1]][dr[2]].val[1]) >= 1
    /\ \A i \in 1..Len(requests) :
          IsPut(requests[i]) =>
             /\ requests[i].data[1].rrset_values # None
             /\ Len(requests[i].data[1].rrset_values[1]) >= 1

\* C15 happens: a record declared without values and a PTR record have both
\* been looked up.
UnsetAndPtrLookedUp ==
    /\ pc = "done"
    /\ \E dr \in ResolvedRecords : WasUnset(dr[1], dr[2])
    /\ \E dr \in ResolvedRecords : ini[dr[1]][dr[2]] = Record("PTR", <<"rev">>, None)
    /\ CountIf(requests, IsRecordGet) = 2

\* Record r of domain d of the file as one run resolves it.
ResolvedIni(d, r) == Resolve(ini[d][r], wan_addr[1], domains[d])

IniTarget(d, r) ==
    << ProviderHref(domains[d]), ResolvedIni(d, r).name, <<ResolvedIni(d, r).type>> >>

AllRecords == UNION { {d} \X (1..Len(ini[d])) : d \in 1..Len(ini) }

\* Two records of the configuration resolve to one URL with different values.
ConflictingTargets ==
    \E a \in AllRecords, b \in AllRecords :
        /\ IniTarget(a[1], a[2]) = IniTarget(b[1], b[2])
        /\ ResolvedIni(a[1], a[2]).val # ResolvedIni(b[1], b[2]).val

IsUpdate(msg) == msg.kind = "updating"

\* C16 (as claimed): the second run, after a first run that completed with
\* every PUT stored, issues no PUT and emits no update notification.
SecondRunIdle ==
    run = 2 => (CountIf(requests, IsPut) = 0 /\ CountIf(notified, IsUpdate) = 0)

\* C16 (amended): the same, for a configuration no two records of which
\* resolve to the same URL with different values.
SecondRunIdleWithoutConflict ==
    (run = 2 /\ ~ConflictingTargets) =>
        (CountIf(requests, IsPut) = 0 /\ CountIf(notified, IsUpdate) = 0)

\* C16 happens: the second run ended after looking up two records of a
\* configuration without conflict, each of which the zone holds as desired.
SecondRunCompleted ==
    /\ run = 2
    /\ pc = "done"
    /\ ~ConflictingTargets
    /\ CountIf(requests, IsRecordGet) = 2
    /\ \A dr \in AllRecords :
          ZoneEntry(IniTarget(dr[1], dr[2]), ResolvedIni(dr[1], dr[2]).val[1]) \in zone

\* The metadata GET of the current domain is the latest request and has been
\* answered: response is its answer.
DomainFetchReturned ==
    /\ di >= 1
    /\ ri = 0
    /\ requests # <<>>
    /\ LastRequest = Request("GET", DomainUrl(domains[di]), None)

\* gandi_req returned no payload, or one without the endpoint reference.
Unusable(got) ==
    /\ got.raised = ""
    /\ \/ got.value = None
       \/ got.value[1].zone_records_href = None

\* C17: a metadata fetch that yields no payload, or a payload without
\* zone_records_href, aborts the run at that domain: the fetch stays the last
\* request, nothing was requested for that domain's records or for a later
\* domain, and the step leaves the requests made before it as they are.
UnusableDomainAbortsRun ==
    /\ []((DomainFetchReturned /\ Unusable(gandi_req(response[1]))) =>
            /\ pc = "aborted"
            /\ error \in {"AssertionError", "KeyError"}
            /\ \A i \in 1..Len(requests), d \in di..Len(domains) :
                  /\ requests[i].url[1] # ProviderHref(domains[d])
                  /\ d > di => requests[i].url # DomainUrl(domains[d]))
    /\ [][pc = "for_domain" =>
            /\ SubSeq(requests', 1, Len(requests)) = requests
            /\ notified' = notified
            /\ records' = records]_vars

\* C17 happens: the run aborted on the metadata of the second domain after
\* a PUT for the first.
AbortedAtSecondDomain ==
    /\ pc = "aborted"
    /\ di = 2
    /\ DomainFetchReturned
    /\ Unusable(gandi_req(response[1]))
    /\ \E i \in 1..Len(requests) :
          IsPut(requests[i]) /\ requests[i].url[1] = ProviderHref(domains[1])

RECURSIVE TargetsFrom(_, _)
\* The URLs of all records from record r of domain d on, in declared order.
TargetsFrom(d, r) ==
    IF d > Len(records) THEN <<>>
    ELSE IF r > Len(records[d]) THEN TargetsFrom(d + 1, 1)
    ELSE <<TargetOf(d, r)>> \o TargetsFrom(d, r + 1)

RECURSIVE UrlsOf(_)
UrlsOf(reqs) == IF reqs = <<>> THEN <<>> ELSE <<Head(reqs).url>> \o UrlsOf(Tail(reqs))

\* C18: when IP detection succeeded, every metadata fetch was usable and
\* every provider call returned, the run does not end in an error, and when
\* it ends every record of every domain has been resolved and looked up
\* exactly once, in declared order.
EveryRecordProcessedOnce ==
    (/\ run = 1
     /\ local_ip # <<>>
     /\ ~(pc = "aborted" /\ ri = 0)
     /\ error # "JSONDecodeError") =>
        /\ pc # "aborted"
        /\ pc = "done" =>
              /\ UrlsOf(SelectSeq(requests, IsRecordGet)) = TargetsFrom(1, 1)
              /\ \A dr \in AllRecords :
                    records[dr[1]][dr[2]] = ResolvedIni(dr[1], dr[2])

\* C19: resolution leaves the type of every record, the name of every
\* non-PTR record and the whole of every non-PTR record declared with values
\* as the file has them; a record not yet resolved is as declared; a resolved
\* PTR record holds the domain with a dot instead of what it was declared
\* with.
ResolutionChangesOnlyItsFields ==
    \A dr \in AllRecords :
        LET old == ini[dr[1]][dr[2]]
            new == records[dr[1]][dr[2]]
        IN
        /\ new.type = old.type
        /\ ~Resolved(dr[1], dr[2]) => new = old
        /\ (old.type # "PTR" /\ old.val # None) => new = old
        /\ old.type # "PTR" => new.name = old.name
        /\ (old.type = "PTR" /\ Resolved(dr[1], dr[2])) =>
              /\ new.val = Some(<< domains[dr[1]] \o <<"">> >>)
              /\ new.val # old.val

\* C19 happens: a run ended with an MX record as declared and a PTR record
\* whose declared values were replaced.
ExplicitKeptPtrReplaced ==
    /\ pc = "done"
    /\ \E dr \in ResolvedRecords :
          /\ ini[dr[1]][dr[2]].type = "MX"
          /\ records[dr[1]][dr[2]] = Record("MX", <<"@">>, Some(MxValues))
    /\ \E dr \in ResolvedRecords :
          /\ ini[dr[1]][dr[2]] = Record("PTR", <<"host">>, Some(<< <<"old", "lan", "">> >>))
          /\ records[dr[1]][dr[2]].val = Some(<< domains[dr[1]] \o <<"">> >>)

====
